---- MODULE Spec2Model ----
(***************************************************************************)
(* shardctl: the setup command (cli.setup), the repository sync loop       *)
(* (utils.clone_services) and the build-service command                    *)
(* (cli.build_service_cmd), over a filesystem of directories.              *)
(*                                                                         *)
(* A path is a sequence of segments from the filesystem root <<>>.  A      *)
(* string that names a path (a service name, a working_directory) is a     *)
(* record [present, abs, segs]: present = FALSE is Python's None, abs     *)
(* says the string starts with "/", segs are its segments (<<>> is the     *)
(* empty string).  The filesystem fs is the set of directories that        *)
(* exist, as normalised absolute paths; there are no symbolic links.       *)
(*                                                                         *)
(* Environment assumptions: creating and stat-ing the services root does   *)
(* not raise; a clone that exits 0 has created its destination (with       *)
(* leading directories) and a clone that fails leaves no directory; a      *)
(* removal that raises leaves the service directory in place.              *)
(***************************************************************************)
EXTENDS Integers, Sequences, FiniteSets, TLC

VARIABLES fs, cfgExists, manifest, pc, caller, force, i, console, ops,
          fsStart, prev, exitCode, req

vars == <<fs, cfgExists, manifest, pc, caller, force, i, console, ops,
          fsStart, prev, exitCode, req>>

\* Largest number of entries of the repositories mapping the model draws.
MaxServices == 2

----------------------------------------------------------------------------
\* Paths (pathlib.Path and the operating system's path resolution)

Str(a, s) == [present |-> TRUE, abs |-> a, segs |-> s]
None == [present |-> FALSE, abs |-> FALSE, segs |-> <<>>]

\* Python truthiness of an Optional[str]: None and "" are falsy.
Truthy(n) == n.present /\ (n.abs \/ n.segs # <<>>)

\* config.services_dir, with config.root_dir = /w
RootDir == <<"w">>
ServicesDir == <<"w", "s">>

\* Path.__truediv__: an absolute right operand replaces the left one.
Join(base, n) == IF n.abs THEN n.segs ELSE base \o n.segs

RECURSIVE NormFrom(_, _)
NormFrom(p, acc) ==
    IF p = <<>> THEN acc
    ELSE IF Head(p) = ".."
         THEN NormFrom(Tail(p),
                       IF acc = <<>> THEN <<>> ELSE SubSeq(acc, 1, Len(acc) - 1))
         ELSE NormFrom(Tail(p), Append(acc, Head(p)))

\* The directory a path names once ".." segments are followed.
Norm(p) == NormFrom(p, <<>>)

Prefixes(p) == {SubSeq(p, 1, k) : k \in 0..Len(p)}
IsPrefix(a, b) == Len(a) <= Len(b) /\ SubSeq(b, 1, Len(a)) = a

\* Path.exists(): every directory on the way must exist.
Exists(f, p) == \A k \in 0..Len(p) : Norm(SubSeq(p, 1, k)) \in f

\* mkdir(parents=True, exist_ok=True)
Mkdir(f, p) == f \cup Prefixes(Norm(p))
\* shutil.rmtree that returns normally
Rmtree(f, p) == {q \in f : ~IsPrefix(Norm(p), q)}
\* git clone <url> <p> that exits 0
GitClone(f, p) == f \cup Prefixes(Norm(p))

\* p names a directory strictly below the services root
UnderRoot(p) == IsPrefix(ServicesDir, Norm(p)) /\ Norm(p) # ServicesDir

----------------------------------------------------------------------------
\* Inputs

NameA == Str(FALSE, <<"a">>)
NameB == Str(FALSE, <<"b">>)
NameUp == Str(FALSE, <<"..", "x">>)
NameAbs == Str(TRUE, <<"x">>)
Names == {NameA, NameB, NameUp, NameAbs}

UrlOf(n) ==
    IF n = NameA THEN "https://x/a.git"
    ELSE IF n = NameB THEN "https://x/b.git"
    ELSE IF n = NameUp THEN "https://x/up.git"
    ELSE "https://x/abs.git"

Entry(n) == [name |-> n, url |-> UrlOf(n)]

\* Ordered mappings name -> url with unique keys, of at most MaxServices entries.
Manifests ==
    UNION {{[k \in 1..n |-> Entry(f[k])] :
              f \in {g \in [1..n -> Names] :
                       \A a, b \in 1..n : a # b => g[a] # g[b]}} :
           n \in 0..MaxServices}

\* The repositories of the file create_services_config_example writes.
ExampleRepos ==
    <<[name |-> Str(FALSE, <<"service-1">>),
       url |-> "https://github.com/your-org/service-1.git"],
      [name |-> Str(FALSE, <<"service-2">>),
       url |-> "https://github.com/your-org/service-2.git"]>>

InitFs ==
    {{<<>>, RootDir} \cup s :
       s \in {t \in SUBSET {ServicesDir, ServicesDir \o <<"a">>,
                            ServicesDir \o <<"b">>, RootDir \o <<"x">>, <<"x">>} :
                \A q \in t : \A r \in Prefixes(q) : r \in t \cup {<<>>, RootDir}}}

----------------------------------------------------------------------------
\* Console messages and system calls, in the order the program makes them

Msg(k, status, kind) == [k |-> k, status |-> status, kind |-> kind]
Op(op, k, path, url, res) ==
    [op |-> op, k |-> k, path |-> path, url |-> url, res |-> res]

\* The per-service outcomes of the current run, in the order printed.
Outcomes == SelectSeq(console, LAMBDA m : m.k > 0)

NoPrev == [valid |-> FALSE, force |-> FALSE, ok |-> FALSE, cloned |-> FALSE]
NoReq == [service |-> None, docker |-> FALSE, list |-> FALSE,
          cfg |-> [none |-> TRUE, cmd |-> FALSE, dcmd |-> FALSE, wd |-> None]]

Idle == pc = "idle"

\* What the run that just ended was, for the invocation that follows it: a
\* sync is remembered with its force flag, whether any outcome was Failed and
\* whether any was Cloned;
\* a build changes nothing a sync reads; a rewritten configuration starts anew.
LastRun ==
    IF caller \in {"setup", "direct"}
    THEN [valid |-> TRUE, force |-> force,
          ok |-> exitCode # 1 /\ \A k \in 1..Len(console) : console[k].status # "Failed",
          cloned |-> \E k \in 1..Len(console) : console[k].status = "Cloned"]
    ELSE IF caller = "build" THEN prev
    ELSE NoPrev

Init ==
    /\ fs \in InitFs
    /\ cfgExists \in BOOLEAN
    /\ manifest \in (IF cfgExists THEN Manifests ELSE {<<>>})
    /\ pc = "idle"
    /\ caller = "none"
    /\ force = FALSE
    /\ i = 0
    /\ console = <<>>
    /\ ops = <<>>
    /\ fsStart = fs
    /\ prev = NoPrev
    /\ exitCode = -1
    /\ req = NoReq

----------------------------------------------------------------------------
\* utils.clone_services

\* pathlib join of the services directory and the mapping's key
ServicePath(name) == Join(ServicesDir, name)

\* Mutant: the empty-mapping check is missing.
M_NoReposNever(m) == FALSE

\* "if not service_repos"
NoRepos(m) == m = <<>>

\* Mutant: the force test is inverted.
M_ExistsBranchInverted(f) == IF f THEN "skip" ELSE "remove"

\* Mutant: an existing directory is removed whatever force says.
M_ExistsBranchAlwaysRemove(f) == "remove"

\* What the loop does with a service whose path exists.
ExistsBranch(f) == IF f THEN "remove" ELSE "skip"

\* Mutant: the removal's exception is not caught.
M_RemoveErrorRaises == "raise"

\* Mutant: the "continue" after a failed removal is missing.
M_RemoveErrorClones == "clone"

\* After shutil.rmtree raised: "continue" with the next service.
AfterRemoveError == "next"

\* After subprocess.run raised: both handlers fall through to the next service.
AfterCloneError(res) == "next"

\* The message the clone's try block prints for each way the clone can end.
CloneKind(res) ==
    IF res = "ok" THEN "cloned"
    ELSE IF res = "nonzero" THEN "cloneFailed" ELSE "cloneError"

CloneStatus(res) == IF res = "ok" THEN "Cloned" ELSE "Failed"

\* The arguments of the clone the loop spawns for the entry e.
CloneArgs(e) == [url |-> e.url, path |-> ServicePath(e.name)]

InLoop == pc = "loop" /\ i >= 1 /\ i <= Len(manifest)

\* An exception leaves the command: the process ends with a traceback.
Raise ==
    /\ pc' = "done"
    /\ exitCode' = 1

\* The body of clone_services up to the loop, entered with the console and the
\* system calls its caller has already made.
EnterCloneServices(hdr, pre) ==
    IF NoRepos(manifest)
    THEN /\ console' = Append(hdr, Msg(0, "Info", "noRepos"))
         /\ ops' = pre
         /\ fs' = fs
         /\ pc' = "done"
         /\ i' = 0
    ELSE /\ console' = hdr
         /\ ops' = Append(pre, Op("mkdir", 0, ServicesDir, "", "ok"))
         /\ fs' = Mkdir(fs, ServicesDir)
         /\ pc' = "loop"
         /\ i' = 1

\* A direct call clone_services(manifest, services_dir, force=f).
CloneServices(f) ==
    /\ Idle
    /\ prev' = prev
    /\ caller' = "direct"
    /\ force' = f
    /\ fsStart' = fs
    /\ exitCode' = -1
    /\ req' = NoReq
    /\ EnterCloneServices(<<>>, <<>>)
    /\ UNCHANGED <<cfgExists, manifest>>

\* The service's path exists and force is off: skip it.
LoopSkip ==
    /\ InLoop
    /\ Exists(fs, ServicePath(manifest[i].name))
    /\ ExistsBranch(force) = "skip"
    /\ ops' = Append(ops, Op("exists", i, ServicePath(manifest[i].name), "", "true"))
    /\ console' = Append(console, Msg(i, "Skipped", "exists"))
    /\ i' = i + 1
    /\ UNCHANGED <<fs, cfgExists, manifest, pc, caller, force, fsStart, prev,
                   exitCode, req>>

\* The service's path exists and force is on: remove it, then clone; a removal
\* that raises is reported and the loop continues with the next service.
LoopRemove(ok) ==
    /\ InLoop
    /\ Exists(fs, ServicePath(manifest[i].name))
    /\ ExistsBranch(force) = "remove"
    /\ ops' = ops \o <<Op("exists", i, ServicePath(manifest[i].name), "", "true"),
                       Op("rmtree", i, ServicePath(manifest[i].name), "",
                          IF ok THEN "ok" ELSE "fail")>>
    /\ IF ok
       THEN /\ fs' = Rmtree(fs, ServicePath(manifest[i].name))
            /\ pc' = "clone"
            /\ UNCHANGED <<console, i, exitCode>>
       ELSE /\ fs' = fs
            /\ console' = Append(console, Msg(i, "Failed", "removeError"))
            /\ IF AfterRemoveError = "next"
               THEN pc' = "loop" /\ i' = i + 1 /\ exitCode' = exitCode
               ELSE IF AfterRemoveError = "clone"
               THEN pc' = "clone" /\ i' = i /\ exitCode' = exitCode
               ELSE Raise /\ i' = i
    /\ UNCHANGED <<cfgExists, manifest, caller, force, fsStart, prev, req>>

\* The service's path does not exist: go on to the clone.
LoopAbsent ==
    /\ InLoop
    /\ ~Exists(fs, ServicePath(manifest[i].name))
    /\ ops' = Append(ops, Op("exists", i, ServicePath(manifest[i].name), "", "false"))
    /\ pc' = "clone"
    /\ UNCHANGED <<fs, cfgExists, manifest, caller, force, i, console, fsStart,
                   prev, exitCode, req>>

\* subprocess.run(["git", "clone", repo_url, str(service_path)], check=True):
\* res is "ok" (exit 0), "nonzero" (CalledProcessError) or "spawn" (any other
\* exception, such as git missing).
Clone(res) ==
    /\ pc = "clone"
    /\ ops' = Append(ops, Op("clone", i, CloneArgs(manifest[i]).path,
                             CloneArgs(manifest[i]).url, res))
    /\ fs' = IF res = "ok" THEN GitClone(fs, CloneArgs(manifest[i]).path) ELSE fs
    /\ console' = Append(console, Msg(i, CloneStatus(res), CloneKind(res)))
    /\ IF res = "ok" \/ AfterCloneError(res) = "next"
       THEN pc' = "loop" /\ i' = i + 1 /\ exitCode' = exitCode
       ELSE Raise /\ i' = i
    /\ UNCHANGED <<cfgExists, manifest, caller, force, fsStart, prev, req>>

\* What setup does once clone_services has returned None.
SetupVerdict == 0

\* The loop is exhausted: clone_services returns None; setup prints
\* "Setup completed" and ends normally.
LoopEnd ==
    /\ pc = "loop"
    /\ i > Len(manifest)
    /\ pc' = "done"
    /\ IF caller = "setup"
       THEN /\ console' = Append(console, Msg(0, "Info", "setupCompleted"))
            /\ exitCode' = SetupVerdict
       ELSE UNCHANGED <<console, exitCode>>
    /\ UNCHANGED <<fs, cfgExists, manifest, caller, force, i, ops, fsStart,
                   prev, req>>

----------------------------------------------------------------------------
\* cli.setup

\* "if not service_repos" in setup
SetupNoRepos(m) == m = <<>>

\* shardctl setup [--force] [--create-config]; wrote says whether the write of
\* the example file succeeded.
Setup(f, createConfig, wrote) ==
    /\ Idle
    /\ force' = f
    /\ fsStart' = fs
    /\ req' = NoReq
    /\ IF createConfig
       THEN /\ caller' = "config"
            /\ prev' = prev
            /\ pc' = "done"
            /\ exitCode' = 0
            /\ i' = 0
            /\ fs' = fs
            /\ IF cfgExists /\ ~f
               THEN /\ console' = <<Msg(0, "Info", "configExists")>>
                    /\ ops' = <<>>
                    /\ UNCHANGED <<cfgExists, manifest>>
               ELSE /\ ops' = <<Op("write", 0, RootDir \o <<"services.yml">>, "",
                                   IF wrote THEN "ok" ELSE "fail")>>
                    /\ IF wrote
                       THEN /\ console' = <<Msg(0, "Info", "configCreated")>>
                            /\ cfgExists' = TRUE
                            /\ manifest' = ExampleRepos
                       ELSE /\ console' = <<Msg(0, "Error", "configError")>>
                            /\ UNCHANGED <<cfgExists, manifest>>
       ELSE /\ caller' = "setup"
            /\ prev' = prev
            /\ UNCHANGED <<cfgExists, manifest>>
            /\ IF SetupNoRepos(manifest)
               THEN /\ console' = <<Msg(0, "Info", "noRepos")>>
                    /\ ops' = <<>>
                    /\ pc' = "done"
                    /\ exitCode' = 0
                    /\ i' = 0
                    /\ fs' = fs
               ELSE \* config.ensure_services_dir(), then clone_services
                    /\ exitCode' = -1
                    /\ EnterCloneServices(
                         <<Msg(0, "Info", "settingUp")>>,
                         <<Op("mkdir", 0, ServicesDir, "", "ok")>>)

----------------------------------------------------------------------------
\* cli.build_service_cmd

\* A build configuration: none is "no entry for the service"; cmd says whether
\* a build command is configured; wd is the working_directory value.
BuildCfg(none, cmd, wd) == [none |-> none, cmd |-> cmd, dcmd |-> FALSE, wd |-> wd]

\* A build configuration that also has a docker_build_command.
DockerCfg(wd) == [none |-> FALSE, cmd |-> TRUE, dcmd |-> TRUE, wd |-> wd]

\* Mutant: the check for a missing build configuration is dropped.
M_HasBuildConfigAlways(c) == TRUE

\* Python truthiness of the dictionary get_service_build_config returns.
HasBuildConfig(c) == ~c.none /\ (c.cmd \/ c.dcmd \/ c.wd.present)

\* Mutant: working_directory is ignored.
M_BuildPathIgnoresWorkingDir(service, c) == Join(ServicesDir, service)

\* "if working_dir: services_dir / working_dir, else services_dir / service"
BuildPath(service, c) ==
    IF Truthy(c.wd) THEN Join(ServicesDir, c.wd) ELSE Join(ServicesDir, service)

WorkDirs == {None, Str(FALSE, <<>>), Str(FALSE, <<"sub", "dir">>),
             Str(FALSE, <<"..", "x">>), Str(TRUE, <<"x">>)}

BuildCfgs == {BuildCfg(TRUE, FALSE, None), BuildCfg(FALSE, FALSE, None)}
             \cup {BuildCfg(FALSE, TRUE, w) : w \in WorkDirs}
             \cup {DockerCfg(w) : w \in WorkDirs}

\* build_service selects docker_build_command in docker mode, build_command
\* otherwise; the result says whether the selected command is configured.
SelectedCommand(c, docker) == IF docker THEN c.dcmd ELSE c.cmd

\* build_service(service, service_path, build_config, docker): without a
\* selected command it fails before spawning (NoBuildCommand); with a working
\* directory that does not exist it fails before spawning
\* (WorkingDirectoryMissing); otherwise it spawns the command with the path as
\* its working directory, and succeeds iff the command exits 0.
BuildService(path, c, docker, success) ==
    IF ~SelectedCommand(c, docker) THEN "noBuildCommand"
    ELSE IF ~Exists(fs, path) THEN "workingDirectoryMissing"
    ELSE IF success THEN "ok" ELSE "fail"

\* The system calls of one build_service call that ended with res.
BuildOps(path, res) ==
    IF res \in {"ok", "fail"}
    THEN <<Op("build_service", 0, path, "", res), Op("spawn", 0, path, "", res)>>
    ELSE <<Op("build_service", 0, path, "", res)>>

BuildServices == {None, Str(FALSE, <<>>), NameA, Str(FALSE, <<"svc">>)}

\* shardctl build-service [SERVICE] [--docker] [--list]; anyCfg says whether
\* get_all_build_configs is non-empty, success says whether a spawned build
\* command exits 0.
BuildServiceCmd(service, docker, list, c, anyCfg, success) ==
    /\ Idle
    /\ caller' = "build"
    /\ prev' = prev
    /\ req' = [service |-> service, docker |-> docker, list |-> list, cfg |-> c]
    /\ force' = FALSE
    /\ i' = 0
    /\ fsStart' = fs
    /\ pc' = "done"
    /\ IF list
       THEN /\ console' = <<Msg(0, "Info", IF anyCfg THEN "table" ELSE "noBuildConfigs")>>
            /\ ops' = <<>>
            /\ exitCode' = 0
       ELSE IF ~Truthy(service)
       THEN /\ console' = <<Msg(0, "Error", "serviceRequired")>>
            /\ ops' = <<>>
            /\ exitCode' = 1
       ELSE IF ~HasBuildConfig(c)
       THEN /\ console' = <<Msg(0, "Error", "noConfigForService")>>
            /\ ops' = <<>>
            /\ exitCode' = 1
       ELSE /\ console' = <<>>
            /\ ops' = BuildOps(BuildPath(service, c),
                                BuildService(BuildPath(service, c), c, docker, success))
            /\ exitCode' = IF BuildService(BuildPath(service, c), c, docker, success) = "ok"
                           THEN 0 ELSE 1
    /\ UNCHANGED <<fs, cfgExists, manifest>>

----------------------------------------------------------------------------

\* The process ends; the next command starts with an empty console.
Exit ==
    /\ pc = "done"
    /\ pc' = "idle"
    /\ prev' = LastRun
    /\ caller' = "none"
    /\ force' = FALSE
    /\ i' = 0
    /\ console' = <<>>
    /\ ops' = <<>>
    /\ fsStart' = fs
    /\ exitCode' = -1
    /\ req' = NoReq
    /\ UNCHANGED <<fs, cfgExists, manifest>>

Next ==
    \/ \E f \in BOOLEAN : CloneServices(f)
    \/ \E f, cc, w \in BOOLEAN : Setup(f, cc, w)
    \/ LoopSkip
    \/ \E ok \in BOOLEAN : LoopRemove(ok)
    \/ LoopAbsent
    \/ \E res \in {"ok", "nonzero", "spawn"} : Clone(res)
    \/ LoopEnd
    \/ \E service \in BuildServices, c \in BuildCfgs, docker, success \in BOOLEAN :
         BuildServiceCmd(service, docker, FALSE, c, TRUE, success)
    \/ \E anyCfg \in BOOLEAN :
         BuildServiceCmd(None, FALSE, TRUE, BuildCfg(TRUE, FALSE, None), anyCfg, TRUE)
    \/ Exit

Spec == Init /\ [][Next]_vars

----------------------------------------------------------------------------
\* Properties

SyncRun == caller \in {"setup", "direct"}

\* The positions in ops of the calls of kind op made for service k.
Calls(op, k) == {j \in 1..Len(ops) : ops[j].op = op /\ ops[j].k = k}

\* Service k has had its turn: its outcome is decided.
Processed(k) == k < i

ExistedAtTurn(k) == \E j \in Calls("exists", k) : ops[j].res = "true"
AbsentAtTurn(k) == \E j \in Calls("exists", k) : ops[j].res = "false"

\* C1: one invocation of sync processes every service of the manifest exactly
\* once, in manifest order, and ends with exactly one outcome per service; a
\* removal or clone failure never ends the loop early.
C1_AttemptAll ==
    SyncRun =>
      /\ \A k \in 1..Len(Outcomes) : Outcomes[k].k = k
      /\ pc \in {"loop", "clone"} => Len(Outcomes) = i - 1
      /\ pc = "clone" => i <= Len(manifest)
      /\ pc = "done" => Len(Outcomes) = Len(manifest)
      /\ \A k \in 1..Len(manifest) :
           /\ Cardinality(Calls("exists", k)) =
                (IF Processed(k) \/ (k = i /\ pc = "clone") THEN 1 ELSE 0)
           /\ Cardinality(Calls("rmtree", k)) <= 1
           /\ Cardinality(Calls("clone", k)) <= 1

C1_Witness ==
    /\ SyncRun /\ pc = "done" /\ Len(manifest) = 2 /\ Len(Outcomes) = 2
    /\ Outcomes[1].kind = "removeError"
    /\ Outcomes[2].kind = "cloneError"

\* C2: with force on, an existing service directory is removed before its
\* clone is attempted, and the clone is attempted only when the removal
\* succeeded; a failed removal gives the outcome Failed, no clone for that
\* service, and the remaining services are still processed.
C2_ForceRemoveThenClone ==
    (SyncRun /\ force) =>
      /\ \A k \in 1..Len(manifest) :
           ExistedAtTurn(k) =>
             /\ Calls("rmtree", k) # {}
             /\ \A r \in Calls("rmtree", k) :
                  ops[r].path = Join(ServicesDir, manifest[k].name)
             /\ \A c \in Calls("clone", k) :
                  \E r \in Calls("rmtree", k) : r < c /\ ops[r].res = "ok"
             /\ (\E r \in Calls("rmtree", k) : ops[r].res = "fail") =>
                  /\ Calls("clone", k) = {}
                  /\ Len(Outcomes) >= k
                  /\ Outcomes[k].status = "Failed"
                  /\ pc # "done" => i > k
      /\ pc = "done" => Len(Outcomes) = Len(manifest)

C2_Witness ==
    /\ SyncRun /\ force /\ pc = "done" /\ Len(manifest) = 2
    /\ \E r \in Calls("rmtree", 1) : ops[r].res = "fail"
    /\ Calls("clone", 1) = {}
    /\ \E r \in Calls("rmtree", 2) : ops[r].res = "ok"
    /\ Calls("clone", 2) # {}

\* C3: after a sync with force off in which no service failed, a second sync
\* of the same manifest with force off skips every service, attempts no clone
\* and no removal, and leaves the filesystem as the first call left it.
C3_Idempotent ==
    (SyncRun /\ prev.valid /\ ~prev.force /\ prev.ok /\ ~force) =>
      /\ \A k \in 1..Len(Outcomes) : Outcomes[k].status = "Skipped"
      /\ \A j \in 1..Len(ops) : ops[j].op \notin {"clone", "rmtree"}
      /\ fs = fsStart
      /\ pc \in {"loop", "done"}
      /\ pc = "done" => Len(Outcomes) = Len(manifest)

C3_Witness ==
    /\ SyncRun /\ prev.valid /\ ~prev.force /\ prev.ok /\ ~force
    /\ pc = "done" /\ Len(manifest) = 2 /\ Len(Outcomes) = 2
    /\ prev.cloned

\* C4: with force off, a service whose path exists at its turn is Skipped, no
\* removal and no clone touches its directory, and the directory still exists;
\* services whose path does not exist are cloned in the same invocation.
C4_SkipExisting ==
    (SyncRun /\ ~force) =>
      \A k \in 1..Len(manifest) :
        /\ ExistedAtTurn(k) =>
             /\ Calls("rmtree", k) = {} /\ Calls("clone", k) = {}
             /\ Len(Outcomes) >= k /\ Outcomes[k].status = "Skipped"
             /\ Exists(fs, Join(ServicesDir, manifest[k].name))
             /\ \A j \in 1..Len(ops) :
                  ops[j].op \in {"rmtree", "clone"} =>
                    /\ ~IsPrefix(Norm(ops[j].path),
                                 Norm(Join(ServicesDir, manifest[k].name)))
                    /\ ~IsPrefix(Norm(Join(ServicesDir, manifest[k].name)),
                                 Norm(ops[j].path))
        /\ (AbsentAtTurn(k) /\ Processed(k)) => Calls("clone", k) # {}

C4_Witness ==
    /\ SyncRun /\ ~force /\ pc = "done" /\ Len(manifest) = 2
    /\ Len(Outcomes) = 2
    /\ Outcomes[1].status = "Skipped"
    /\ Outcomes[2].status = "Cloned"

\* C5: every path sync removes or clones into lies under the services root,
\* for every manifest and either value of force.
C5_OnlyUnderRoot ==
    SyncRun =>
      \A j \in 1..Len(ops) :
        ops[j].op \in {"rmtree", "clone"} => UnderRoot(ops[j].path)

\* C6: the verdict the setup command ends with is success exactly when no
\* service's outcome is Failed.
C6_VerdictIffNoFailed ==
    (caller = "setup" /\ pc = "done") =>
      ((exitCode = 0) <=>
         (\A k \in 1..Len(Outcomes) : Outcomes[k].status # "Failed"))

\* The first sentence of C7: a service whose path does not exist at its turn
\* (never existed, or just removed under force) gets exactly one clone of its
\* URL into servicesRoot/serviceName, and is Cloned iff that clone exits 0.
CloneOfAbsent ==
    \A k \in 1..Len(manifest) :
      (Processed(k) /\ (AbsentAtTurn(k)
                        \/ \E r \in Calls("rmtree", k) : ops[r].res = "ok")) =>
        /\ Cardinality(Calls("clone", k)) = 1
        /\ \A c \in Calls("clone", k) :
             /\ ops[c].url = manifest[k].url
             /\ ops[c].path = Join(ServicesDir, manifest[k].name)
             /\ (Outcomes[k].status = "Cloned") <=> (ops[c].res = "ok")
             /\ (Outcomes[k].status = "Failed") <=> (ops[c].res # "ok")

\* No directory lies under the services root when the run starts.
EmptyRootAtStart == \A q \in fsStart : ~(IsPrefix(ServicesDir, q) /\ q # ServicesDir)

\* C7: a service whose path does not exist at its turn gets exactly one clone
\* of its URL into servicesRoot/serviceName, with outcome Cloned iff the clone
\* exits 0; so from an empty services root with all clones succeeding, every
\* outcome is Cloned and the root holds one directory per service.
C7_CloneAbsentAndScenario ==
    SyncRun =>
      /\ CloneOfAbsent
      /\ (/\ pc = "done"
          /\ EmptyRootAtStart
          /\ \A j \in 1..Len(ops) : ops[j].op = "clone" => ops[j].res = "ok") =>
           /\ \A k \in 1..Len(Outcomes) : Outcomes[k].status = "Cloned"
           /\ Cardinality({q \in fs : IsPrefix(ServicesDir, q)
                                      /\ Len(q) = Len(ServicesDir) + 1})
                = Len(manifest)

\* C8: a sync of a manifest with zero entries ends normally with the "no
\* repositories" notice and makes no removal, no clone and no directory.
C8_EmptyManifest ==
    (SyncRun /\ manifest = <<>>) =>
      /\ pc = "done"
      /\ console = <<Msg(0, "Info", "noRepos")>>
      /\ ops = <<>>
      /\ fs = fsStart
      /\ exitCode # 1

C8_Witness ==
    /\ SyncRun /\ manifest = <<>> /\ pc = "done" /\ force
    /\ ServicesDir \notin fs

\* The build_service call of the current build-service command, if any.
BuildCalls == {j \in 1..Len(ops) : ops[j].op = "build_service"}

\* C9 as stated: the directory handed to the build is
\* servicesRoot/workingDirectory when workingDirectory is present and
\* servicesRoot/serviceName when it is absent.
C9_WorkingDirIfPresent ==
    caller = "build" =>
      \A j \in BuildCalls :
        ops[j].path = IF req.cfg.wd.present
                      THEN Join(ServicesDir, req.cfg.wd)
                      ELSE Join(ServicesDir, req.service)

\* C9 amended: the directory handed to the build is
\* servicesRoot/workingDirectory when workingDirectory is present and not the
\* empty string, and servicesRoot/serviceName when it is absent or empty.
C9_WorkingDirIfNonEmpty ==
    caller = "build" =>
      \A j \in BuildCalls :
        ops[j].path = IF req.cfg.wd.present
                         /\ (req.cfg.wd.abs \/ req.cfg.wd.segs # <<>>)
                      THEN Join(ServicesDir, req.cfg.wd)
                      ELSE Join(ServicesDir, req.service)

C9_Witness ==
    /\ caller = "build" /\ BuildCalls # {}
    /\ req.service = Str(FALSE, <<"svc">>)
    /\ req.cfg.wd = Str(FALSE, <<"sub", "dir">>)
    /\ \A j \in BuildCalls : ops[j].path = <<"w", "s", "sub", "dir">>

\* C10: a build requested for a named service that has no build configuration
\* ends with the error "no configuration for service" and a failure exit,
\* without any call of the build and without resolving a working directory.
C10_NoConfigForService ==
    (caller = "build" /\ pc = "done" /\ ~req.list
       /\ Truthy(req.service) /\ req.cfg.none) =>
      /\ console = <<Msg(0, "Error", "noConfigForService")>>
      /\ exitCode = 1
      /\ ops = <<>>

C10_Witness ==
    /\ caller = "build" /\ pc = "done" /\ ~req.list
    /\ req.service = NameA /\ req.cfg.none
    /\ exitCode = 1

\* The build commands spawned by the current build-service command.
Spawns == {j \in 1..Len(ops) : ops[j].op = "spawn"}

\* C11: no build command is ever run with a working directory outside the
\* services root: a working_directory that is absolute or climbs out with ".."
\* is rejected before the build is spawned.
C11_BuildInsideRoot ==
    caller = "build" =>
      \A j \in Spawns : IsPrefix(ServicesDir, Norm(ops[j].path))

====
